---- MODULE Spec2Model ----
(***************************************************************************)
(* Transaction risk scoring app (src/app.py).                              *)
(*                                                                         *)
(* The script is a straight-line Streamlit page: upload, load & validate,  *)
(* compute risk, KPIs, top-20 table, distribution chart, download link,    *)
(* narrative.  score_transaction, to_float and categorize are pure         *)
(* functions of a row.  Python values are modelled with their type, so     *)
(* that str(), float(), .strip(), .upper() and .lower() are computed       *)
(* rather than assumed.                                                    *)
(***************************************************************************)
EXTENDS Integers, Sequences, FiniteSets, TLC

VARIABLES
    pc,          \* position of the run in the script
    uploaded,    \* st.file_uploader result: NoFile or [columns, rows]
    df,          \* rows read by pd.read_csv (sequence, position = index label)
    df_scored,   \* rows with risk_score / risk_category
    error,       \* text shown by st.error
    metrics,     \* the four st.metric values
    top_high,    \* index labels of the rows of the top-20 table
    counts,      \* value_counts of risk_category (chart input)
    download,    \* whether the download link was rendered
    narrative,   \* aggregates of the narrative summary
    row,         \* SpecScore: the row handed to score_transaction
    risk_score,  \* SpecScore / SpecCat: the score
    risk_category \* SpecScore / SpecCat: the category

vars == <<pc, uploaded, df, df_scored, error, metrics, top_high, counts,
          download, narrative, row, risk_score, risk_category>>

-----------------------------------------------------------------------------
(* Python values.  t is the type; n/d the numeric value (d a power of ten); *)
(* s the characters of a str.                                               *)

V(t, n, d, s) == [t |-> t, n |-> n, d |-> d, s |-> s]

\* the key is not in the row: row.get returns its default
Absent == V("absent", 0, 1, <<>>)
PyNone == V("None", 0, 1, <<>>)
PyInt(n) == V("int", n, 1, <<>>)
PyBool(b) == V("bool", IF b THEN 1 ELSE 0, 1, <<>>)
PyFloat(n, d) == V("float", n, d, <<>>)
\* float("nan"): what pandas stores for an empty cell
PyNaN == V("nan", 0, 1, <<>>)
PyInf(sign) == V("inf", sign, 1, <<>>)
PyStr(s) == V("str", 0, 1, s)
\* the ValueError / TypeError float() raises
ValueError == V("error", 0, 1, <<>>)

-----------------------------------------------------------------------------
(* str methods *)

Lowers == <<"a","b","c","d","e","f","g","h","i","j","k","l","m",
            "n","o","p","q","r","s","t","u","v","w","x","y","z">>
Uppers == <<"A","B","C","D","E","F","G","H","I","J","K","L","M",
            "N","O","P","Q","R","S","T","U","V","W","X","Y","Z">>
DigitChars == <<"0","1","2","3","4","5","6","7","8","9">>
Whitespace == {" ", "\t", "\n", "\r"}

IndexOf(c, seq) ==
    IF \E i \in 1..Len(seq) : seq[i] = c
    THEN CHOOSE i \in 1..Len(seq) : seq[i] = c
    ELSE 0

LowerSet == {Lowers[i] : i \in 1..Len(Lowers)}
UpperSet == {Uppers[i] : i \in 1..Len(Uppers)}
ToLower == [c \in UpperSet |-> Lowers[IndexOf(c, Uppers)]]
ToUpper == [c \in LowerSet |-> Uppers[IndexOf(c, Lowers)]]

LowerChar(c) == IF c \in UpperSet THEN ToLower[c] ELSE c
UpperChar(c) == IF c \in LowerSet THEN ToUpper[c] ELSE c

str_lower(s) == [i \in 1..Len(s) |-> LowerChar(s[i])]
str_upper(s) == [i \in 1..Len(s) |-> UpperChar(s[i])]

RECURSIVE str_lstrip(_)
str_lstrip(s) ==
    IF s # <<>> /\ Head(s) \in Whitespace THEN str_lstrip(Tail(s)) ELSE s

RECURSIVE str_rstrip(_)
str_rstrip(s) ==
    IF s # <<>> /\ s[Len(s)] \in Whitespace
    THEN str_rstrip(SubSeq(s, 1, Len(s) - 1))
    ELSE s

str_strip(s) == str_rstrip(str_lstrip(s))

-----------------------------------------------------------------------------
(* str(x) *)

RECURSIVE NatToStr(_)
NatToStr(n) ==
    IF n < 10 THEN <<DigitChars[n + 1]>>
    ELSE NatToStr(n \div 10) \o <<DigitChars[(n % 10) + 1]>>

IntToStr(n) == IF n < 0 THEN <<"-">> \o NatToStr(-n) ELSE NatToStr(n)

\* the digits after the point of r/d, 0 <= r < d, d a power of ten
RECURSIVE FracDigits(_, _)
FracDigits(r, d) ==
    IF d = 1 THEN <<>>
    ELSE <<DigitChars[(r \div (d \div 10)) + 1]>> \o FracDigits(r % (d \div 10), d \div 10)

FloatToStr(n, d) ==
    LET a == IF n < 0 THEN -n ELSE n
        frac == FracDigits(a % d, d)
    IN (IF n < 0 THEN <<"-">> ELSE <<>>) \o NatToStr(a \div d) \o <<".">>
       \o (IF frac = <<>> THEN <<"0">> ELSE frac)

py_str(x) ==
    CASE x.t = "str" -> x.s
      [] x.t = "None" -> <<"N","o","n","e">>
      [] x.t = "nan" -> <<"n","a","n">>
      [] x.t = "inf" -> IF x.n < 0 THEN <<"-","i","n","f">> ELSE <<"i","n","f">>
      [] x.t = "bool" -> IF x.n = 1 THEN <<"T","r","u","e">> ELSE <<"F","a","l","s","e">>
      [] x.t = "int" -> IntToStr(x.n)
      [] x.t = "float" -> FloatToStr(x.n, x.d)

\* a str compared with an int by ==: never equal
StrEqInt(s, n) == FALSE

-----------------------------------------------------------------------------
(* float(x) *)

DigitSet == {DigitChars[i] : i \in 1..Len(DigitChars)}
DigitOf == [c \in DigitSet |-> IndexOf(c, DigitChars) - 1]

IsDigit(c) == c \in DigitSet

\* a run of digits, underscores allowed between two digits
DigitRun(s) ==
    /\ Len(s) > 0
    /\ IsDigit(s[1]) /\ IsDigit(s[Len(s)])
    /\ \A i \in 1..Len(s) : IsDigit(s[i]) \/ s[i] = "_"
    /\ \A i \in 1..(Len(s) - 1) : ~(s[i] = "_" /\ s[i + 1] = "_")

RECURSIVE DigitsValue(_, _)
DigitsValue(s, acc) ==
    IF s = <<>> THEN acc
    ELSE IF Head(s) = "_" THEN DigitsValue(Tail(s), acc)
    ELSE DigitsValue(Tail(s), acc * 10 + DigitOf[Head(s)])

NumDigits(s) == Cardinality({i \in 1..Len(s) : IsDigit(s[i])})

RECURSIVE Pow10(_)
Pow10(k) == IF k <= 0 THEN 1 ELSE 10 * Pow10(k - 1)

\* position of the first character of s that is in cs, 0 if none
FirstOf(s, cs) ==
    IF \E i \in 1..Len(s) : s[i] \in cs
    THEN CHOOSE i \in 1..Len(s) : s[i] \in cs /\ \A j \in 1..(i - 1) : s[j] \notin cs
    ELSE 0

\* an unsigned decimal literal: digits [. digits] [e [sign] digits]
ParseDecimal(s, sign) ==
    LET e == FirstOf(s, {"e", "E"})
        mant == IF e = 0 THEN s ELSE SubSeq(s, 1, e - 1)
        expo == IF e = 0 THEN <<>> ELSE SubSeq(s, e + 1, Len(s))
        esign == IF expo # <<>> /\ Head(expo) = "-" THEN -1 ELSE 1
        edigits == IF expo # <<>> /\ Head(expo) \in {"+", "-"} THEN Tail(expo) ELSE expo
        p == FirstOf(mant, {"."})
        ip == IF p = 0 THEN mant ELSE SubSeq(mant, 1, p - 1)
        fp == IF p = 0 THEN <<>> ELSE SubSeq(mant, p + 1, Len(mant))
        ok == /\ (e = 0 \/ DigitRun(edigits))
              /\ (ip = <<>> \/ DigitRun(ip))
              /\ (fp = <<>> \/ DigitRun(fp))
              /\ (ip # <<>> \/ fp # <<>>)
        k == NumDigits(fp)
        m == DigitsValue(ip, 0) * Pow10(k) + DigitsValue(fp, 0)
        x == IF e = 0 THEN 0 ELSE esign * DigitsValue(edigits, 0)
    IN IF ~ok THEN ValueError
       ELSE IF x >= 0 THEN PyFloat(sign * m * Pow10(x), Pow10(k))
       ELSE PyFloat(sign * m, Pow10(k) * Pow10(-x))

ParseFloat(s) ==
    LET t == str_strip(s)
        signed == t # <<>> /\ Head(t) \in {"+", "-"}
        sign == IF signed /\ Head(t) = "-" THEN -1 ELSE 1
        body == IF signed THEN Tail(t) ELSE t
        low == str_lower(body)
    IN IF low \in {<<"i","n","f">>, <<"i","n","f","i","n","i","t","y">>} THEN PyInf(sign)
       ELSE IF low = <<"n","a","n">> THEN PyNaN
       ELSE ParseDecimal(body, sign)

py_float(x) ==
    CASE x.t = "str" -> ParseFloat(x.s)
      [] x.t \in {"int", "bool"} -> PyFloat(x.n, 1)
      [] x.t \in {"float", "nan", "inf"} -> x
      [] OTHER -> ValueError

\* x > c and x < c for a float x and an integer literal c
Gt(x, c) ==
    CASE x.t = "float" -> x.n > c * x.d
      [] x.t = "inf" -> x.n > 0
      [] OTHER -> FALSE

Lt(x, c) ==
    CASE x.t = "float" -> x.n < c * x.d
      [] x.t = "inf" -> x.n < 0
      [] OTHER -> FALSE

-----------------------------------------------------------------------------
(* Business rules configuration *)

HIGH_RISK_COUNTRIES ==
    {<<"I","R">>, <<"K","P">>, <<"S","Y">>, <<"C","U">>, <<"R","U">>, <<"U","A">>, <<"A","F">>, <<"I","Q">>, <<"Y","E">>, <<"S","O">>, <<"S","D">>, <<"C","D">>}

RISKY_MERCHANT_CATS ==
    {<<"g","a","m","b","l","i","n","g">>,
     <<"c","r","y","p","t","o">>,
     <<"v","i","r","t","u","a","l","_","g","o","o","d","s">>,
     <<"a","d","u","l","t">>,
     <<"g","i","f","t","_","c","a","r","d","s">>}

\* the dict as its items, in declaration order
KYC_TIER_SCORES ==
    <<<<<<"t","i","e","r","_","1">>, 10>>,
      <<<<"b","a","s","i","c">>, 10>>,
      <<<<"l","i","t","e">>, 10>>,
      <<<<"t","i","e","r","_","2">>, 5>>,
      <<<<"s","t","a","n","d","a","r","d">>, 5>>,
      <<<<"t","i","e","r","_","3">>, 0>>,
      <<<<"e","n","h","a","n","c","e","d">>, 0>>,
      <<<<"f","u","l","l">>, 0>>>>

CATEGORY_RULES ==
    << <<"Low", 0, 39>>, <<"Medium", 40, 69>>, <<"High", 70, 100>> >>

\* dict.get(key, default)
dict_get(items, key, default) ==
    IF \E i \in 1..Len(items) : items[i][1] = key
    THEN items[CHOOSE i \in 1..Len(items) : items[i][1] = key][2]
    ELSE default

required_cols ==
    <<"txn_id", "timestamp", "sender_country", "receiver_country", "amount_usd",
      "channel", "customer_age_days", "prior_txn_24h", "sanctioned_party_flag",
      "kyc_tier", "merchant_category", "velocity_1h", "velocity_24h", "device_change_flag">>

-----------------------------------------------------------------------------
(* Core risk scoring *)

\* row.get(key, default)
row_get(r, key, default) == IF r[key] = Absent THEN default ELSE r[key]

\* a blank reads as 0.0 instead of None
to_float_zero(x) ==
    IF x.t = "None" \/ (x.t = "str" /\ str_strip(x.s) = <<>>) THEN PyFloat(0, 1)
    ELSE LET f == py_float(x) IN IF f = ValueError THEN PyFloat(0, 1) ELSE f

to_float(x) ==
    IF x.t = "None" \/ (x.t = "str" /\ str_strip(x.s) = <<>>) THEN PyNone
    ELSE LET f == py_float(x) IN IF f = ValueError THEN PyNone ELSE f

\* the strings the two flag tests accept
FlagStrings ==
    {<<"1">>, <<"t","r","u","e">>, <<"T","r","u","e">>, <<"T","R","U","E">>}

flag_set(x) ==
    LET s == str_strip(py_str(x)) IN s \in FlagStrings \/ StrEqInt(s, 1)

\* 0) sanctions hard stop
sanctions_stop(r) == flag_set(row_get(r, "sanctioned_party_flag", PyInt(0)))

\* the second tier tested with < for >
amount_points_below(r) ==
    LET amt == to_float(row_get(r, "amount_usd", PyNone))
    IN IF amt # PyNone
       THEN IF Gt(amt, 10000) THEN 20
            ELSE IF Lt(amt, 5000) THEN 15
            ELSE IF Gt(amt, 1000) THEN 10
            ELSE 0
       ELSE 0

\* 1) amount (USD)
amount_points(r) ==
    LET amt == to_float(row_get(r, "amount_usd", PyNone))
    IN IF amt # PyNone
       THEN IF Gt(amt, 10000) THEN 20
            ELSE IF Gt(amt, 5000) THEN 15
            ELSE IF Gt(amt, 1000) THEN 10
            ELSE 0
       ELSE 0

\* 2) country corridor risk
corridor_points(r) ==
    LET sc == str_upper(py_str(row_get(r, "sender_country", PyStr(<<>>))))
        rc == str_upper(py_str(row_get(r, "receiver_country", PyStr(<<>>))))
    IN (IF sc # <<>> /\ rc # <<>> /\ sc # rc THEN 5 ELSE 0)
       + (IF sc \in HIGH_RISK_COUNTRIES \/ rc \in HIGH_RISK_COUNTRIES THEN 15 ELSE 0)

\* 3) KYC tier
kyc_points(r) ==
    LET tier_raw == str_strip(str_lower(py_str(row_get(r, "kyc_tier", PyStr(<<>>)))))
    IN dict_get(KYC_TIER_SCORES, tier_raw, 5)

\* 4) velocity
velocity_points(r) ==
    LET v1h == to_float(row_get(r, "velocity_1h", PyNone))
        v24h == to_float(row_get(r, "velocity_24h", PyNone))
    IN (IF v1h # PyNone
        THEN IF Gt(v1h, 5) THEN 15 ELSE IF Gt(v1h, 2) THEN 8 ELSE 0
        ELSE 0)
       + (IF v24h # PyNone
          THEN IF Gt(v24h, 20) THEN 10 ELSE IF Gt(v24h, 10) THEN 5 ELSE 0
          ELSE 0)

\* 5) merchant category
merchant_points(r) ==
    LET mcc == str_strip(str_lower(py_str(row_get(r, "merchant_category", PyStr(<<>>)))))
    IN IF mcc \in RISKY_MERCHANT_CATS THEN 10 ELSE 0

\* 6) device change
device_points(r) ==
    IF flag_set(row_get(r, "device_change_flag", PyInt(0))) THEN 10 ELSE 0

\* 7) account age (days)
age_points(r) ==
    LET age == to_float(row_get(r, "customer_age_days", PyNone))
    IN IF age # PyNone
       THEN IF Lt(age, 30) THEN 15
            ELSE IF Lt(age, 90) THEN 10
            ELSE IF Lt(age, 365) THEN 5
            ELSE 0
       ELSE 0

\* 8) prior txn in 24h (bursting)
prior_points(r) ==
    LET prior_24h == to_float(row_get(r, "prior_txn_24h", PyNone))
    IN IF prior_24h # PyNone
       THEN IF Gt(prior_24h, 10) THEN 10 ELSE IF Gt(prior_24h, 3) THEN 5 ELSE 0
       ELSE 0

Max(a, b) == IF a >= b THEN a ELSE b
Min(a, b) == IF a <= b THEN a ELSE b

NumericFields ==
    {"amount_usd", "velocity_1h", "velocity_24h", "customer_age_days", "prior_txn_24h"}

\* an exception leaves score_transaction: only float() can raise, and only
\* past the sanctions return
score_raises(r) ==
    /\ ~sanctions_stop(r)
    /\ \E f \in NumericFields : to_float(row_get(r, f, PyNone)) = ValueError

\* the cap at [0, 100] left out
score_transaction_noclamp(r) ==
    IF sanctions_stop(r) THEN 100
    ELSE 10 + amount_points(r) + corridor_points(r) + kyc_points(r)
         + velocity_points(r) + merchant_points(r) + device_points(r)
         + age_points(r) + prior_points(r)

\* score is an int throughout, so int(round(score)) is score
score_transaction(r) ==
    IF sanctions_stop(r) THEN 100
    ELSE Max(0, Min(100, 10 + amount_points(r) + corridor_points(r) + kyc_points(r)
                         + velocity_points(r) + merchant_points(r) + device_points(r)
                         + age_points(r) + prior_points(r)))

\* the upper end of a range taken as exclusive
categorize_last(score) ==
    LET hits == {i \in 1..Len(CATEGORY_RULES) :
                    CATEGORY_RULES[i][2] <= score /\ score < CATEGORY_RULES[i][3]}
    IN IF hits = {} THEN "Low"
       ELSE CATEGORY_RULES[CHOOSE i \in hits : \A j \in hits : i <= j][1]

\* the first range, in declaration order, that holds the score
categorize(score) ==
    LET hits == {i \in 1..Len(CATEGORY_RULES) :
                    CATEGORY_RULES[i][2] <= score /\ score <= CATEGORY_RULES[i][3]}
    IN IF hits = {} THEN "Low"
       ELSE CATEGORY_RULES[CHOOSE i \in hits : \A j \in hits : i <= j][1]

-----------------------------------------------------------------------------
(* Rows.  A row maps every required column to a Python value; Absent marks  *)
(* a key the row does not have.                                             *)

\* amount 500, US>US, full KYC, no velocity, retail, old account: scores 10
RowPlain ==
    [txn_id |-> PyStr(<<"T","1">>),
     timestamp |-> PyStr(<<"2","0","2","5">>),
     sender_country |-> PyStr(<<"U","S">>),
     receiver_country |-> PyStr(<<"U","S">>),
     amount_usd |-> PyInt(500),
     channel |-> PyStr(<<"w","e","b">>),
     customer_age_days |-> PyInt(1000),
     prior_txn_24h |-> PyInt(0),
     sanctioned_party_flag |-> PyInt(0),
     kyc_tier |-> PyStr(<<"f","u","l","l">>),
     merchant_category |-> PyStr(<<"r","e","t","a","i","l">>),
     velocity_1h |-> PyInt(0),
     velocity_24h |-> PyInt(0),
     device_change_flag |-> PyInt(0)]

\* 12000, US>IR, tier_1, high velocity, gambling, device change, new account
RowRisky ==
    [txn_id |-> PyStr(<<"T","1">>),
     timestamp |-> PyStr(<<"2","0","2","5">>),
     sender_country |-> PyStr(<<"U","S">>),
     receiver_country |-> PyStr(<<"I","R">>),
     amount_usd |-> PyInt(12000),
     channel |-> PyStr(<<"w","e","b">>),
     customer_age_days |-> PyInt(10),
     prior_txn_24h |-> PyInt(15),
     sanctioned_party_flag |-> PyInt(0),
     kyc_tier |-> PyStr(<<"t","i","e","r","_","1">>),
     merchant_category |-> PyStr(<<"g","a","m","b","l","i","n","g">>),
     velocity_1h |-> PyInt(6),
     velocity_24h |-> PyInt(25),
     device_change_flag |-> PyInt(1)]

\* the fields score_transaction reads
ScoredFields ==
    <<"sanctioned_party_flag", "amount_usd", "sender_country",
      "receiver_country", "kyc_tier", "velocity_1h", "velocity_24h",
      "merchant_category", "device_change_flag", "customer_age_days",
      "prior_txn_24h">>

\* the values a field takes in the rows that are scored
FieldValues(f) ==
    CASE f = "sanctioned_party_flag" ->
        {PyInt(0), PyInt(1), PyFloat(1, 1), PyBool(TRUE), PyStr(<<"1">>),
         PyStr(<<"t","r","u","e">>), PyStr(<<"T","R","U","E">>),
         PyStr(<<"t","R","u","E">>), PyStr(<<" ","T","r","u","e"," ">>),
         PyStr(<<"y","e","s">>), PyNaN}
      [] f = "amount_usd" ->
        {PyInt(500), PyInt(1000), PyInt(1001), PyInt(5000), PyInt(5001),
         PyInt(10000), PyInt(10001), PyFloat(10005, 10),
         PyStr(<<"7","5","0","0">>), PyStr(<<"a","b","c">>), PyStr(<<" "," ">>),
         PyNone, PyNaN}
      [] f = "sender_country" ->
        {PyStr(<<"U","S">>), PyStr(<<"u","s">>), PyStr(<<"I","R">>),
         PyStr(<<"G","B">>), PyStr(<<>>), PyNaN, Absent}
      [] f = "receiver_country" ->
        {PyStr(<<"U","S">>), PyStr(<<"k","p">>), PyStr(<<"G","B">>),
         PyStr(<<>>), PyNone, PyNaN}
      [] f = "kyc_tier" ->
        {PyStr(<<" ","B","a","s","i","c"," ">>),
         PyStr(<<"t","i","e","r","_","2">>), PyStr(<<"f","u","l","l">>),
         PyStr(<<"g","o","l","d">>), PyNaN}
      [] f = "velocity_1h" ->
        {PyInt(2), PyInt(3), PyInt(5), PyInt(6), PyStr(<<"a","b","c">>),
         PyStr(<<>>), PyNone}
      [] f = "velocity_24h" ->
        {PyInt(10), PyInt(11), PyInt(20), PyInt(21), PyStr(<<"n","/","a">>),
         PyStr(<<" ">>), PyNone}
      [] f = "merchant_category" ->
        {PyStr(<<"r","e","t","a","i","l">>),
         PyStr(<<" ","C","r","y","p","t","o"," ">>), PyNaN}
      [] f = "device_change_flag" ->
        {PyInt(0), PyInt(1), PyFloat(1, 1), PyBool(TRUE), PyStr(<<"1">>),
         PyStr(<<"t","r","u","e">>), PyStr(<<"T","R","U","E">>),
         PyStr(<<"t","R","u","E">>), PyStr(<<" ","T","r","u","e"," ">>),
         PyStr(<<"y","e","s">>), PyNaN}
      [] f = "customer_age_days" ->
        {PyInt(29), PyInt(30), PyInt(89), PyInt(90), PyInt(364), PyInt(365),
         PyStr(<<"a","b","c">>), PyStr(<<>>), PyNone, PyNaN}
      [] f = "prior_txn_24h" ->
        {PyInt(3), PyInt(4), PyInt(10), PyInt(11), PyStr(<<"a","b","c">>),
         PyStr(<<>>), PyNone}

\* how many fields of a base row are replaced at most
MaxEdits == 2

\* an edit <<i, v>> sets field ScoredFields[i] to v; NoEdit leaves the row alone
NoEdit == <<Len(ScoredFields) + 1, Absent>>

\* the j-th edit, of a field after field i
EditsAfter(i, j) ==
    IF j > MaxEdits THEN {NoEdit}
    ELSE {NoEdit} \cup UNION {{<<k, v>> : v \in FieldValues(ScoredFields[k])}
                                : k \in (i + 1)..Len(ScoredFields)}

ApplyEdit(r, e) ==
    IF e[1] > Len(ScoredFields) THEN r ELSE [r EXCEPT ![ScoredFields[e[1]]] = e[2]]

\* st.file_uploader returned None
NoFile == [none |-> TRUE, columns |-> <<>>, cells |-> <<>>]
\* nothing read yet
NoFrame == [columns |-> <<>>, dtypes |-> {}, rows |-> <<>>]
\* a part of the page that was not rendered
NotShown == [shown |-> FALSE]

-----------------------------------------------------------------------------
(* SpecScore: score_transaction and categorize applied to one row *)

InitScore ==
    /\ pc = "row"
    /\ \E base \in {RowPlain, RowRisky} :
         \E e1 \in EditsAfter(0, 1) :
           \E e2 \in EditsAfter(e1[1], 2) :
             \E e3 \in EditsAfter(e2[1], 3) :
               row = ApplyEdit(ApplyEdit(ApplyEdit(base, e1), e2), e3)
    /\ risk_score = 0
    /\ risk_category = ""
    /\ error = ""
    /\ uploaded = NoFile
    /\ df = NoFrame
    /\ df_scored = <<>>
    /\ metrics = NotShown
    /\ top_high = <<>>
    /\ counts = NotShown
    /\ download = FALSE
    /\ narrative = NotShown

\* risk_score = score_transaction(row); risk_category = categorize(risk_score)
ScoreRow ==
    /\ pc = "row"
    /\ IF score_raises(row)
       THEN /\ pc' = "raised"
            /\ error' = "ValueError"
            /\ UNCHANGED <<risk_score, risk_category>>
       ELSE /\ pc' = "scored"
            /\ risk_score' = score_transaction(row)
            /\ risk_category' = categorize(score_transaction(row))
            /\ UNCHANGED error
    /\ UNCHANGED <<uploaded, df, df_scored, metrics, top_high, counts, download,
                   narrative, row>>

NextScore == ScoreRow

SpecScore == InitScore /\ [][NextScore]_vars

-----------------------------------------------------------------------------
(* SpecCat: categorize applied to an integer, inside and outside 0..100 *)

\* how far outside 0..100 the integers handed to categorize reach
CatSlack == 10

InitCat ==
    /\ pc = "score"
    /\ risk_score \in (0 - CatSlack)..(100 + CatSlack)
    /\ risk_category = ""
    /\ row = RowPlain
    /\ error = ""
    /\ uploaded = NoFile
    /\ df = NoFrame
    /\ df_scored = <<>>
    /\ metrics = NotShown
    /\ top_high = <<>>
    /\ counts = NotShown
    /\ download = FALSE
    /\ narrative = NotShown

Categorize ==
    /\ pc = "score"
    /\ pc' = "categorized"
    /\ risk_category' = categorize(risk_score)
    /\ UNCHANGED <<uploaded, df, df_scored, error, metrics, top_high, counts,
                   download, narrative, row, risk_score>>

NextCat == Categorize

SpecCat == InitCat /\ [][NextCat]_vars

-----------------------------------------------------------------------------
(* pd.read_csv: the cells of the uploaded file are text; each column gets   *)
(* the first of int64, float64, bool, object that holds all its cells.      *)

\* the default na_values
NAValues ==
    {<<>>, <<"#","N","/","A">>, <<"#","N","/","A"," ","N","/","A">>,
     <<"#","N","A">>, <<"-","1",".","#","I","N","D">>, <<"-","1",".","#","Q","N","A","N">>,
     <<"-","N","a","N">>, <<"-","n","a","n">>, <<"1",".","#","I","N","D">>,
     <<"1",".","#","Q","N","A","N">>, <<"<","N","A",">">>, <<"N","/","A">>,
     <<"N","A">>, <<"N","U","L","L">>, <<"N","a","N">>,
     <<"N","o","n","e">>, <<"n","/","a">>, <<"n","a","n">>,
     <<"n","u","l","l">>}

TrueValues == {<<"T","r","u","e">>, <<"T","R","U","E">>, <<"t","r","u","e">>}
FalseValues == {<<"F","a","l","s","e">>, <<"F","A","L","S","E">>, <<"f","a","l","s","e">>}

IsNA(s) == s \in NAValues

\* text the parser reads as a number; the tokenizer takes no underscores
FloatText(s) ==
    /\ \A i \in 1..Len(s) : s[i] # "_"
    /\ ParseFloat(s) # ValueError

IntText(s) ==
    LET u == str_strip(s)
        body == IF u # <<>> /\ Head(u) \in {"+", "-"} THEN Tail(u) ELSE u
    IN body # <<>> /\ \A i \in 1..Len(body) : IsDigit(body[i])

ColumnCells(file, c) == {file.cells[i][c] : i \in 1..Len(file.cells)}

infer_dtype(file, c) ==
    LET cells == ColumnCells(file, c)
        some == {s \in cells : ~IsNA(s)}
    IN IF cells = {} THEN "object"
       ELSE IF some = cells /\ \A s \in cells : IntText(s) THEN "int64"
       ELSE IF \A s \in some : FloatText(s) THEN "float64"
       ELSE IF some = cells /\ \A s \in cells : s \in TrueValues \cup FalseValues
            THEN "bool"
       ELSE "object"

\* bool cells beside empty ones stay Python bools in an object column
convert_cell(dtype, boolish, s) ==
    CASE dtype = "int64" -> PyInt(ParseFloat(s).n)
      [] dtype = "float64" -> IF IsNA(s) THEN PyNaN ELSE ParseFloat(s)
      [] dtype = "bool" -> PyBool(s \in TrueValues)
      [] OTHER -> IF IsNA(s) THEN PyNaN
                  ELSE IF boolish THEN PyBool(s \in TrueValues)
                  ELSE PyStr(s)

ColumnSet(cols) == {cols[i] : i \in 1..Len(cols)}

\* <<column, dtype, whether every cell is empty or a bool>>
column_info(file) ==
    {<<c, infer_dtype(file, c),
       \A s \in ColumnCells(file, c) : IsNA(s) \/ s \in TrueValues \cup FalseValues>> :
        c \in ColumnSet(file.columns)}

\* a key the frame does not have reads as Absent
read_csv(file) ==
    LET cs == ColumnSet(file.columns)
        info == column_info(file)
        of(c) == CHOOSE p \in info : p[1] = c
    IN [columns |-> file.columns,
        dtypes |-> {<<p[1], p[2]>> : p \in info},
        rows |-> [i \in 1..Len(file.cells) |->
                    [c \in ColumnSet(required_cols) |->
                        IF c \in cs
                        THEN convert_cell(of(c)[2], of(c)[3], file.cells[i][c])
                        ELSE Absent]]]

\* the dtype of a column of a frame
dtype_of(frame, c) == (CHOOSE p \in frame.dtypes : p[1] = c)[2]

-----------------------------------------------------------------------------
(* The uploaded files *)

\* scores 10: Low
TextPlain ==
    [txn_id |-> <<"T","1">>,
     timestamp |-> <<"2","0","2","5","-","0","1","-","3","1">>,
     sender_country |-> <<"U","S">>,
     receiver_country |-> <<"U","S">>,
     amount_usd |-> <<"5","0","0">>,
     channel |-> <<"w","e","b">>,
     customer_age_days |-> <<"1","0","0","0">>,
     prior_txn_24h |-> <<"0">>,
     sanctioned_party_flag |-> <<"0">>,
     kyc_tier |-> <<"f","u","l","l">>,
     merchant_category |-> <<"r","e","t","a","i","l">>,
     velocity_1h |-> <<"0">>,
     velocity_24h |-> <<"0">>,
     device_change_flag |-> <<"0">>]

\* scores 53: Medium (the account age cell is empty)
TextMid ==
    [txn_id |-> <<"T","2">>,
     timestamp |-> <<"2","0","2","5","-","0","1","-","3","1">>,
     sender_country |-> <<"U","S">>,
     receiver_country |-> <<"g","b">>,
     amount_usd |-> <<"7","5","0","0",".","5">>,
     channel |-> <<"w","e","b">>,
     customer_age_days |-> <<>>,
     prior_txn_24h |-> <<"0">>,
     sanctioned_party_flag |-> <<"0">>,
     kyc_tier |-> <<"t","i","e","r","_","2">>,
     merchant_category |-> <<"C","r","y","p","t","o">>,
     velocity_1h |-> <<"3">>,
     velocity_24h |-> <<"0">>,
     device_change_flag |-> <<"0">>]

\* scores 75: High
TextHigh ==
    [txn_id |-> <<"T","3">>,
     timestamp |-> <<"2","0","2","5","-","0","1","-","3","1">>,
     sender_country |-> <<"U","S">>,
     receiver_country |-> <<"I","R">>,
     amount_usd |-> <<"1","2","0","0","0">>,
     channel |-> <<"w","e","b">>,
     customer_age_days |-> <<"1","0","0","0">>,
     prior_txn_24h |-> <<"0">>,
     sanctioned_party_flag |-> <<"0">>,
     kyc_tier |-> <<"t","i","e","r","_","1">>,
     merchant_category |-> <<"r","e","t","a","i","l">>,
     velocity_1h |-> <<"6">>,
     velocity_24h |-> <<"0">>,
     device_change_flag |-> <<"0">>]

\* the points add up to 130: scores 100, High
TextRisky ==
    [txn_id |-> <<"T","4">>,
     timestamp |-> <<"2","0","2","5","-","0","1","-","3","1">>,
     sender_country |-> <<"U","S">>,
     receiver_country |-> <<"I","R">>,
     amount_usd |-> <<"1","2","0","0","0">>,
     channel |-> <<"w","e","b">>,
     customer_age_days |-> <<"1","0">>,
     prior_txn_24h |-> <<"1","5">>,
     sanctioned_party_flag |-> <<"0">>,
     kyc_tier |-> <<"t","i","e","r","_","1">>,
     merchant_category |-> <<"g","a","m","b","l","i","n","g">>,
     velocity_1h |-> <<"6">>,
     velocity_24h |-> <<"2","5">>,
     device_change_flag |-> <<"1">>]

TextRows == <<TextPlain, TextMid, TextHigh, TextRisky>>

\* the longest run of one kind of row in a file
MaxRun == 11

\* how many rows a file that lacks a column has at most
MaxBadRows == 2

Repeat(x, n) == [i \in 1..n |-> x]

Without(cols, c) == SelectSeq(cols, LAMBDA x : x # c)

\* a file with every required column: two runs <<kind of row, length>>
FullFile(a, b) ==
    [none |-> FALSE, columns |-> required_cols,
     cells |-> Repeat(TextRows[a[1]], a[2]) \o Repeat(TextRows[b[1]], b[2])]

\* a file that lacks required column k
BadFile(k, a) ==
    LET cols == Without(required_cols, required_cols[k])
    IN [none |-> FALSE, columns |-> cols,
        cells |-> Repeat([c \in ColumnSet(cols) |-> TextRows[a[1]][c]], a[2])]

Runs == (1..Len(TextRows)) \X (0..MaxRun)

-----------------------------------------------------------------------------
(* Aggregation helpers *)

\* ASCII order of the characters that occur
CharOrder ==
    <<" ">> \o DigitChars \o <<">">> \o Uppers \o <<"_">> \o Lowers
CharCode == [c \in ColumnSet(CharOrder) |-> IndexOf(c, CharOrder)]

\* a < b for two str values
RECURSIVE StrLess(_, _)
StrLess(a, b) ==
    IF b = <<>> THEN FALSE
    ELSE IF a = <<>> THEN TRUE
    ELSE IF Head(a) # Head(b) THEN CharCode[Head(a)] < CharCode[Head(b)]
    ELSE StrLess(Tail(a), Tail(b))

CategoryText(name) ==
    CASE name = "Low" -> <<"L","o","w">>
      [] name = "Medium" -> <<"M","e","d","i","u","m">>
      [] name = "High" -> <<"H","i","g","h">>

\* row i goes before row j under sort_values(["risk_category", "risk_score"],
\* ascending=[True, False]); the sort on several keys is stable
SortsBefore(scored, i, j) ==
    LET ci == CategoryText(scored[i].risk_category)
        cj == CategoryText(scored[j].risk_category)
    IN \/ StrLess(ci, cj)
       \/ ci = cj /\ scored[i].risk_score > scored[j].risk_score
       \/ ci = cj /\ scored[i].risk_score = scored[j].risk_score /\ i < j

\* the index labels in sorted order
sort_values(scored) ==
    LET n == Len(scored)
        place(i) == 1 + Cardinality({j \in 1..n : SortsBefore(scored, j, i)})
    IN [p \in 1..n |-> CHOOSE i \in 1..n : place(i) = p]

head(s, n) == SubSeq(s, 1, Min(n, Len(s)))

\* the sort left out
top_high_unsorted(scored) ==
    head(SelectSeq([i \in 1..Len(scored) |-> i],
                   LAMBDA i : scored[i].risk_category = "High"), 20)

\* sort_values(...).query('risk_category == "High"').head(20)
top_high_of(scored) ==
    head(SelectSeq(sort_values(scored),
                   LAMBDA i : scored[i].risk_category = "High"), 20)

Count(scored, name) ==
    Cardinality({i \in 1..Len(scored) : scored[i].risk_category = name})

RECURSIVE SumScores(_, _)
SumScores(scored, i) ==
    IF i = 0 THEN 0 ELSE scored[i].risk_score + SumScores(scored, i - 1)

\* round(num / den, 1) in tenths; on an exact tie the binary value of the
\* quotient decides, so either neighbour
RoundTenths(num, den) ==
    LET q == (10 * num) \div den
        r == (10 * num) % den
    IN IF 2 * r < den THEN {q} ELSE IF 2 * r > den THEN {q + 1} ELSE {q, q + 1}

\* Series.mean(): NaN for no rows
mean_rounded(scored) ==
    IF Len(scored) = 0 THEN {[nan |-> TRUE, tenths |-> 0]}
    ELSE {[nan |-> FALSE, tenths |-> x] :
             x \in RoundTenths(SumScores(scored, Len(scored)), Len(scored))}

\* the groups <<key, size>> of a sequence of keys
GroupSizes(keys) ==
    {<<k, Cardinality({i \in 1..Len(keys) : keys[i] = k})>> :
        k \in ColumnSet(keys)}

\* groups by size, largest first, cut to n; the sort of one key is not
\* stable, so groups of one size come in any order
LargestFirst(groups, n) ==
    LET m == Min(n, Cardinality(groups))
    IN {q \in [1..m -> groups] :
           /\ \A a, b \in 1..m : a < b => (q[a] # q[b] /\ q[a][2] >= q[b][2])
           /\ \A g \in groups : \A a \in 1..m :
                  (\A b \in 1..m : q[b] # g) => g[2] <= q[a][2]}

corridor(r) ==
    str_upper(py_str(r.sender_country)) \o <<">">> \o str_upper(py_str(r.receiver_country))

\* Series.str.lower(): NaN stays NaN
series_str_lower(v) == IF v.t = "str" THEN PyStr(str_lower(v.s)) ELSE v

risky_mcc(frame) ==
    LET low == [i \in 1..Len(frame.rows) |-> series_str_lower(frame.rows[i].merchant_category)]
    IN SelectSeq(low, LAMBDA v : v.t = "str" /\ v.s \in RISKY_MERCHANT_CATS)

-----------------------------------------------------------------------------
(* Spec: one run of the script, top to bottom *)

Init ==
    /\ pc = "upload"
    /\ \/ uploaded = NoFile
       \/ \E a \in Runs, b \in Runs : uploaded = FullFile(a, b)
       \/ \E k \in 1..Len(required_cols) :
            \E a \in (1..Len(TextRows)) \X (0..MaxBadRows) : uploaded = BadFile(k, a)
    /\ df = NoFrame
    /\ df_scored = <<>>
    /\ error = ""
    /\ metrics = NotShown
    /\ top_high = <<>>
    /\ counts = NotShown
    /\ download = FALSE
    /\ narrative = NotShown
    /\ row = RowPlain
    /\ risk_score = 0
    /\ risk_category = ""

\* uploaded is None: st.info, st.stop
FileUpload ==
    /\ pc = "upload"
    /\ pc' = IF uploaded.none THEN "stopped" ELSE "load"
    /\ UNCHANGED <<uploaded, df, df_scored, error, metrics, top_high, counts,
                   download, narrative, row, risk_score, risk_category>>

\* st.stop() left out after st.error
LoadValidate_nostop ==
    /\ pc = "load"
    /\ df' = read_csv(uploaded)
    /\ LET missing == SelectSeq(required_cols,
                                LAMBDA c : c \notin ColumnSet(df'.columns))
       IN /\ error' = IF missing # <<>> THEN "Missing required columns" ELSE error
          /\ pc' = "compute"
    /\ UNCHANGED <<uploaded, df_scored, metrics, top_high, counts, download,
                   narrative, row, risk_score, risk_category>>

\* Load & Validate: a missing required column ends the run with st.error
LoadValidate ==
    /\ pc = "load"
    /\ df' = read_csv(uploaded)
    /\ LET missing == SelectSeq(required_cols,
                                LAMBDA c : c \notin ColumnSet(df'.columns))
       IN IF missing # <<>>
          THEN /\ error' = "Missing required columns"
               /\ pc' = "rejected"
          ELSE /\ pc' = "compute"
               /\ UNCHANGED error
    /\ UNCHANGED <<uploaded, df_scored, metrics, top_high, counts, download,
                   narrative, row, risk_score, risk_category>>

\* Compute Risk: the two columns added to the copy of df; an exception in
\* score_transaction ends the run
ComputeRisk ==
    /\ pc = "compute"
    /\ IF \E i \in 1..Len(df.rows) : score_raises(df.rows[i])
       THEN /\ pc' = "crashed"
            /\ error' = "ValueError"
            /\ UNCHANGED df_scored
       ELSE /\ pc' = "kpis"
            /\ df_scored' = [i \in 1..Len(df.rows) |->
                               [risk_score |-> score_transaction(df.rows[i]),
                                risk_category |-> categorize(score_transaction(df.rows[i]))]]
            /\ UNCHANGED error
    /\ UNCHANGED <<uploaded, df, metrics, top_high, counts, download, narrative,
                   row, risk_score, risk_category>>

\* KPIs
KPIs ==
    /\ pc = "kpis"
    /\ \E avg \in mean_rounded(df_scored) :
          metrics' = [shown |-> TRUE,
                      total |-> Len(df_scored),
                      high |-> Count(df_scored, "High"),
                      medium |-> Count(df_scored, "Medium"),
                      avg |-> avg]
    /\ pc' = "top"
    /\ UNCHANGED <<uploaded, df, df_scored, error, top_high, counts, download,
                   narrative, row, risk_score, risk_category>>

\* Top 20 High-Risk Table
TopTable ==
    /\ pc = "top"
    /\ top_high' = top_high_of(df_scored)
    /\ pc' = "chart"
    /\ UNCHANGED <<uploaded, df, df_scored, error, metrics, counts, download,
                   narrative, row, risk_score, risk_category>>

\* Distribution Chart: value_counts of risk_category
Chart ==
    /\ pc = "chart"
    /\ \E q \in LargestFirst(GroupSizes([i \in 1..Len(df_scored) |->
                                            df_scored[i].risk_category]), 3) :
          counts' = [shown |-> TRUE, rows |-> q]
    /\ pc' = "download"
    /\ UNCHANGED <<uploaded, df, df_scored, error, metrics, top_high, download,
                   narrative, row, risk_score, risk_category>>

\* Download Scored CSV
Download ==
    /\ pc = "download"
    /\ download' = TRUE
    /\ pc' = "narrative"
    /\ UNCHANGED <<uploaded, df, df_scored, error, metrics, top_high, counts,
                   narrative, row, risk_score, risk_category>>

\* Risk Posture Narrative: the aggregates of the heuristic summary; the
\* OpenAI toggle is off by default.  .str on a column that is not object
\* raises AttributeError
Narrative ==
    /\ pc = "narrative"
    /\ IF Len(df.rows) > 0 /\ dtype_of(df, "merchant_category") # "object"
       THEN /\ pc' = "crashed"
            /\ error' = "AttributeError"
            /\ UNCHANGED narrative
       ELSE /\ pc' = "done"
            /\ UNCHANGED error
            /\ LET total == Len(df_scored)
                   high == Count(df_scored, "High")
               IN \E pct \in (IF total # 0 THEN RoundTenths(100 * high, total) ELSE {0}) :
                  \E tc \in LargestFirst(GroupSizes([i \in 1..Len(df.rows) |->
                                                        corridor(df.rows[i])]), 3) :
                  \E mb \in LargestFirst(GroupSizes(risky_mcc(df)), 5) :
                     narrative' = [shown |-> TRUE,
                                   total |-> total,
                                   high |-> high,
                                   med |-> Count(df_scored, "Medium"),
                                   low |-> Count(df_scored, "Low"),
                                   pct_high |-> pct,
                                   top_corridors |-> tc,
                                   risky_mcc_breakdown |-> mb]
    /\ UNCHANGED <<uploaded, df, df_scored, metrics, top_high, counts, download,
                   row, risk_score, risk_category>>

Next ==
    \/ FileUpload
    \/ LoadValidate
    \/ ComputeRisk
    \/ KPIs
    \/ TopTable
    \/ Chart
    \/ Download
    \/ Narrative

Spec == Init /\ [][Next]_vars

-----------------------------------------------------------------------------
(* Properties of score_transaction and categorize *)

\* a flag value the specification calls truthy: numeric 1, "1", or "true"
\* in any letter case
ClaimTruthy(v) ==
    \/ v.t \in {"int", "float", "bool"} /\ v.n = v.d
    \/ v.t = "str" /\ str_lower(str_strip(v.s)) \in {<<"1">>, <<"t","r","u","e">>}

\* a value that is there: not a missing key, None, an empty cell or ""
Present(v) == v \notin {Absent, PyNone, PyNaN} /\ ~(v.t = "str" /\ v.s = <<>>)

\* None, blank or whitespace-only, or non-numeric text
Unparseable(v) ==
    \/ v = PyNone
    \/ v.t = "str" /\ (str_strip(v.s) = <<>> \/ py_float(v) = ValueError)

\* values in the zero-contribution branch of each numeric rule
ZeroValues(f) ==
    CASE f = "amount_usd" -> {PyInt(0), PyInt(1000)}
      [] f = "velocity_1h" -> {PyInt(0), PyInt(2)}
      [] f = "velocity_24h" -> {PyInt(0), PyInt(10)}
      [] f = "customer_age_days" -> {PyInt(365), PyInt(1000)}
      [] f = "prior_txn_24h" -> {PyInt(0), PyInt(3)}

\* C1: every row is scored (nothing is raised) and the score is an integer
\* in 0..100
C1_ScoreInRange == pc # "row" => (pc = "scored" /\ risk_score \in 0..100)

\* the points add up past 100 on a row with a non-numeric amount
C1_Witness ==
    /\ pc = "scored"
    /\ ~sanctions_stop(row)
    /\ row.amount_usd = PyStr(<<"a","b","c">>)
    /\ risk_score = 100

\* C2: a row whose sanctioned_party_flag is truthy (numeric 1, "1", "true" in
\* any letter case) scores exactly 100 and is High, whatever the other fields
C2_SanctionsDominance ==
    (pc # "row" /\ ClaimTruthy(row.sanctioned_party_flag))
        => (pc = "scored" /\ risk_score = 100 /\ risk_category = "High")

\* the score the additive formula of the specification gives a row
ClaimScore(r) ==
    LET num(f) == to_float(row_get(r, f, PyNone))
        sc == r.sender_country
        rc == r.receiver_country
        up(v) == str_upper(py_str(v))
        low(f) == str_strip(str_lower(py_str(row_get(r, f, PyStr(<<>>)))))
        amount == IF Gt(num("amount_usd"), 10000) THEN 20
                  ELSE IF Gt(num("amount_usd"), 5000) THEN 15
                  ELSE IF Gt(num("amount_usd"), 1000) THEN 10 ELSE 0
        cross == IF Present(sc) /\ Present(rc) /\ up(sc) # up(rc) THEN 5 ELSE 0
        risky == IF \/ Present(sc) /\ up(sc) \in HIGH_RISK_COUNTRIES
                    \/ Present(rc) /\ up(rc) \in HIGH_RISK_COUNTRIES
                 THEN 15 ELSE 0
        kyc == dict_get(KYC_TIER_SCORES, low("kyc_tier"), 5)
        v1h == IF Gt(num("velocity_1h"), 5) THEN 15
               ELSE IF Gt(num("velocity_1h"), 2) THEN 8 ELSE 0
        v24h == IF Gt(num("velocity_24h"), 20) THEN 10
                ELSE IF Gt(num("velocity_24h"), 10) THEN 5 ELSE 0
        merchant == IF low("merchant_category") \in RISKY_MERCHANT_CATS THEN 10 ELSE 0
        device == IF ClaimTruthy(r.device_change_flag) THEN 10 ELSE 0
        age == IF Lt(num("customer_age_days"), 30) THEN 15
               ELSE IF Lt(num("customer_age_days"), 90) THEN 10
               ELSE IF Lt(num("customer_age_days"), 365) THEN 5 ELSE 0
        prior == IF Gt(num("prior_txn_24h"), 10) THEN 10
                 ELSE IF Gt(num("prior_txn_24h"), 3) THEN 5 ELSE 0
    IN Min(100, 10 + amount + cross + risky + kyc + v1h + v24h + merchant
                + device + age + prior)

\* C3: a non-sanctioned row scores min(100, 10 + the nine terms), the
\* cross-border 5 only when both country codes are present and differ, the
\* device 10 for a truthy flag
C3_AdditiveFormula ==
    (pc # "row" /\ ~ClaimTruthy(row.sanctioned_party_flag))
        => (pc = "scored" /\ risk_score = ClaimScore(row))

\* C4: an integer in 0..100 falls in exactly one range and gets the name of
\* the first range (Low 0..39, Medium 40..69, High 70..100) that holds it;
\* an integer outside every range gets "Low"
C4_Categorize ==
    pc = "categorized" =>
        LET s == risk_score
            hits == {i \in 1..Len(CATEGORY_RULES) :
                        CATEGORY_RULES[i][2] <= s /\ s <= CATEGORY_RULES[i][3]}
        IN /\ s \in 0..39 => risk_category = "Low"
           /\ s \in 40..69 => risk_category = "Medium"
           /\ s \in 70..100 => risk_category = "High"
           /\ s \in 0..100 => Cardinality(hits) = 1
           /\ s \notin 0..100 => (hits = {} /\ risk_category = "Low")

\* a score on the upper edge of a range that is not the last one
C4_Witness == pc = "categorized" /\ risk_score = 69 /\ risk_category = "Medium"

\* C6: both flags are truthy exactly for numeric 1, "1" and "true" in any
\* letter case: a value stops the scoring as sanctioned_party_flag iff it
\* adds the device 10 as device_change_flag iff the specification calls it
\* truthy
C6_FlagParsing ==
    pc = "scored" =>
        LET v == row.sanctioned_party_flag
            bump == device_points([row EXCEPT !.device_change_flag = v]) = 10
        IN /\ sanctions_stop(row) <=> ClaimTruthy(v)
           /\ bump <=> ClaimTruthy(v)
           /\ sanctions_stop(row) <=> bump

\* C7: a row with a numeric field that is None, blank or non-numeric text is
\* scored without an error, and scores what the same row scores with that
\* field in the rule's zero-contribution branch
C7_AbsentNeutral ==
    \A f \in NumericFields :
        (pc # "row" /\ Unparseable(row[f])) =>
            /\ pc = "scored"
            /\ \A z \in ZeroValues(f) :
                   risk_score = score_transaction([row EXCEPT ![f] = z])

\* a non-numeric account age on a row that is neither stopped nor clamped
C7_Witness ==
    /\ pc = "scored"
    /\ row.customer_age_days = PyStr(<<"a","b","c">>)
    /\ ~sanctions_stop(row)
    /\ risk_score < 100

\* the amounts compared: every amount value of the rows that is a number
NumericAmounts ==
    {v \in FieldValues("amount_usd") \cup {PyInt(12000)} : to_float(v).t = "float"}

\* x < y for two numbers
NumLess(x, y) == x.n * y.d < y.n * x.d

\* C8: of two rows that differ only in amount_usd, the one with the strictly
\* higher numeric amount scores at least as much
C8_AmountMonotone ==
    (pc = "scored" /\ row.amount_usd \in NumericAmounts) =>
        \A b \in NumericAmounts :
            NumLess(to_float(row.amount_usd), to_float(b))
                => risk_score <= score_transaction([row EXCEPT !.amount_usd = b])

\* a row just under a tier breakpoint that a higher amount scores above
C8_Witness ==
    /\ pc = "scored"
    /\ row.amount_usd = PyInt(5000)
    /\ risk_score < score_transaction([row EXCEPT !.amount_usd = PyInt(5001)])

-----------------------------------------------------------------------------
(* Properties of a run of the script *)

\* the uploaded file lacks a required column
LacksColumn ==
    /\ ~uploaded.none
    /\ \E k \in 1..Len(required_cols) : required_cols[k] \notin ColumnSet(uploaded.columns)

\* C5: an input that lacks a required column is rejected with an error before
\* any row is scored: no score, category, KPI, table, chart or download
C5_RejectBeforeScoring ==
    LacksColumn =>
        /\ pc \in {"upload", "load", "rejected"}
        /\ pc = "rejected" => error = "Missing required columns"
        /\ df_scored = <<>>
        /\ metrics = NotShown
        /\ top_high = <<>>
        /\ counts = NotShown
        /\ download = FALSE
        /\ narrative = NotShown

\* a file with rows and without a column was rejected
C5_Witness == pc = "rejected" /\ Len(df.rows) > 0 /\ error # ""

\* the table has been rendered
TableShown == pc \in {"chart", "download", "narrative", "done"}

HighRows == {i \in 1..Len(df_scored) : df_scored[i].risk_category = "High"}

\* C9: the top table holds only High rows, min(20, number of High rows) of
\* them, in descending score order with equal scores in input order, and no
\* High row left out scores above (or ties with and precedes) a row listed,
\* which fixes the table for a batch
C9_TopTable ==
    TableShown =>
        LET T == top_high
            sc(i) == df_scored[i].risk_score
            listed == {T[k] : k \in 1..Len(T)}
        IN /\ listed \subseteq HighRows
           /\ Len(T) = Min(20, Cardinality(HighRows))
           /\ Cardinality(listed) = Len(T)
           /\ \A k, l \in 1..Len(T) :
                  k < l => (sc(T[k]) > sc(T[l]) \/ (sc(T[k]) = sc(T[l]) /\ T[k] < T[l]))
           /\ \A i \in HighRows \ listed : \A j \in listed :
                  sc(i) < sc(j) \/ (sc(i) = sc(j) /\ j < i)

\* more than 20 High rows, with two scores among the rows listed, the higher
\* ones later in the file
C9_Witness ==
    /\ TableShown
    /\ Cardinality(HighRows) > 20
    /\ Len(top_high) = 20
    /\ df_scored[top_high[1]].risk_score > df_scored[top_high[20]].risk_score
    /\ top_high[1] > top_high[20]

\* C10: a file with every column and no rows runs to the end without error
\* and reports total 0, every category count 0, mean score 0 (not NaN), an
\* empty top table and empty corridor and merchant breakdowns; with rows, the
\* Low, Medium and High counts add up to the total
C10_EmptyBatch ==
    (~LacksColumn /\ ~uploaded.none /\ pc \in {"done", "crashed"}) =>
        /\ pc = "done"
        /\ narrative.low + narrative.med + narrative.high = narrative.total
        /\ Len(uploaded.cells) = 0 =>
              /\ metrics.total = 0 /\ metrics.high = 0 /\ metrics.medium = 0
              /\ narrative.total = 0 /\ narrative.low = 0
              /\ metrics.avg = [nan |-> FALSE, tenths |-> 0]
              /\ top_high = <<>>
              /\ Len(narrative.top_corridors) = 0
              /\ Len(narrative.risky_mcc_breakdown) = 0

====
